---- MODULE Spec2Model ----
(***************************************************************************)
(* Rollout buffer (ExperienceStorage / ExperienceBatch, experience.py) and *)
(* the recurrent segmentation of RecurrentPolicy._forward_gru (policy.py). *)
(*                                                                         *)
(* Tensors are functions: a [T(+1), E, 1] tensor is a function from the    *)
(* slot to a function from the environment to the stored number.  Numbers  *)
(* are integers and the arithmetic is exact: rounding of float32 is not    *)
(* part of this model, and every stored value is finite.                   *)
(***************************************************************************)
EXTENDS Integers, Sequences, FiniteSets, TLC

VARIABLES
    \* ExperienceStorage
    _num_steps, _num_envs, _step,
    observations, actions, action_log_probs, rewards, value_predictions,
    returns, masks, recurrent_hidden_states,
    gen,    \* the generator object batches() returned
    batch,  \* the ExperienceBatch yielded last and not yet used
    op,     \* the last call, its arguments and what it returned
    loop,   \* the caller's position in the rollout cycle
    gru     \* one call of RecurrentPolicy._forward_gru

tensors == <<observations, actions, action_log_probs, rewards, value_predictions,
             returns, masks, recurrent_hidden_states>>
storage == <<_num_steps, _num_envs, _step, tensors>>
vars == <<storage, gen, batch, op, loop, gru>>

Slots == 0.._num_steps
Steps == 0..(_num_steps - 1)
Envs == 0..(_num_envs - 1)

\* Python indexing of a dimension of size len: a negative index counts from
\* the end; PyInRange is false where Python raises IndexError.
PyIndex(i, len) == IF i < 0 THEN i + len ELSE i
PyInRange(i, len) == PyIndex(i, len) >= 0 /\ PyIndex(i, len) < len

\* Sum of F(lo), ..., F(hi) and the power b^n.
RECURSIVE SumRange(_, _, _)
SumRange(F(_), lo, hi) == IF lo > hi THEN 0 ELSE F(lo) + SumRange(F, lo + 1, hi)

RECURSIVE Pow(_, _)
Pow(b, n) == IF n = 0 THEN 1 ELSE b * Pow(b, n - 1)

----------------------------------------------------------------------------
(* ExperienceStorage.compute_returns *)

\* delta without the mask on the value of the next slot.
DeltaAtNoMask(rew, val, msk, discount, step) ==
    [e \in Envs |-> rew[step][e] + discount * val[step + 1][e] - val[step][e]]

\* delta of one loop iteration, one number per environment.
DeltaAt(rew, val, msk, discount, step) ==
    [e \in Envs |-> rew[step][e] + discount * val[step + 1][e] * msk[step + 1][e]
                    - val[step][e]]

\* GaeStep carrying the gae across a reset (no mask on the carry).
GaeStepNoMask(delta, msk_next, gae, discount, gae_lambda) ==
    [e \in Envs |-> delta[e] + discount * gae_lambda * gae[e]]

\* GaeStep applying the mask of environment 0 to every environment.
GaeStepSharedMask(delta, msk_next, gae, discount, gae_lambda) ==
    [e \in Envs |-> delta[e] + discount * gae_lambda * msk_next[0] * gae[e]]

\* The new gae of one loop iteration from delta, the mask of the next slot and
\* the gae of the iteration before.
GaeStep(delta, msk_next, gae, discount, gae_lambda) ==
    [e \in Envs |-> delta[e] + discount * gae_lambda * msk_next[e] * gae[e]]

\* gae after the loop iteration of `step`; before the loop (step =
\* rewards.size(0)) it is 0.
RECURSIVE GaeAfter(_, _, _, _, _, _)
GaeAfter(rew, val, msk, discount, gae_lambda, step) ==
    IF step >= _num_steps THEN [e \in Envs |-> 0]
    ELSE GaeStep(DeltaAt(rew, val, msk, discount, step), msk[step + 1],
                 GaeAfter(rew, val, msk, discount, gae_lambda, step + 1),
                 discount, gae_lambda)

\* ComputeReturns that leaves the stored value_predictions[-1] in place.
ComputeReturnsNoBootstrap(rew, val, ret, msk, next_value, discount, gae_lambda) ==
    [value_predictions |-> val,
     returns |-> [s \in Slots |->
                    IF s \in Steps
                    THEN [e \in Envs |->
                            GaeAfter(rew, val, msk, discount, gae_lambda, s)[e] + val[s][e]]
                    ELSE ret[s]]]

\* ComputeReturns that also writes returns[-1] = next_value.
ComputeReturnsBootstrapSlot(rew, val, ret, msk, next_value, discount, gae_lambda) ==
    LET val2 == [val EXCEPT ![PyIndex(-1, _num_steps + 1)] = next_value]
    IN  [value_predictions |-> val2,
         returns |-> [s \in Slots |->
                        IF s \in Steps
                        THEN [e \in Envs |->
                                GaeAfter(rew, val2, msk, discount, gae_lambda, s)[e]
                                + val2[s][e]]
                        ELSE next_value]]

\* The two tensors compute_returns writes, from the tensors it reads: the
\* loop runs over the slots of rewards, so returns[-1] is not assigned.
ComputeReturns(rew, val, ret, msk, next_value, discount, gae_lambda) ==
    LET val2 == [val EXCEPT ![PyIndex(-1, _num_steps + 1)] = next_value]
    IN  [value_predictions |-> val2,
         returns |-> [s \in Slots |->
                        IF s \in Steps
                        THEN [e \in Envs |->
                                GaeAfter(rew, val2, msk, discount, gae_lambda, s)[e]
                                + val2[s][e]]
                        ELSE ret[s]]]

----------------------------------------------------------------------------
(* State after ExperienceStorage.__init__; no generator, no batch, no call. *)

NoGen == [state |-> "none", minibatches |-> 0, random_env_indices |-> <<>>,
          advantages |-> <<>>, start |-> 0, yielded |-> <<>>]
\* A batch is kept with the values its tensors had when it was made and with
\* the environments it was made of.
NoBatch == [observations |-> <<>>, actions |-> <<>>, prev_actions |-> <<>>,
            prev_rewards |-> <<>>, action_log_probs |-> <<>>, returns |-> <<>>,
            value_predictions |-> <<>>, advantage_targets |-> <<>>, masks |-> <<>>,
            recurrent_hidden_states |-> <<>>, indices |-> <<>>]
\* The caller: the inserts it made in all and in this cycle, whether it
\* computed the returns, the epochs it iterated, its calls out of order, the
\* arguments of its most recent insert and those of the most recent insert at
\* the time of its last after_update.
NoLoop == [inserts |-> 0, filled |-> 0, computed |-> FALSE, epochs |-> 0, misuse |-> 0,
           last |-> <<>>, carried |-> <<>>]
NoGru == [pc |-> "idle", x |-> <<>>, rnn_hxs |-> <<>>, masks |-> <<>>, result |-> <<>>]

\* ExperienceStorage(num_steps, num_envs, observation_shape, hidden_size)
StorageInit(num_steps, num_envs) ==
    /\ _num_steps = num_steps
    /\ _num_envs = num_envs
    /\ _step = 0
    /\ observations = [s \in 0..num_steps |-> [e \in 0..(num_envs - 1) |-> 0]]
    /\ actions = [s \in 0..(num_steps - 1) |-> [e \in 0..(num_envs - 1) |-> 0]]
    /\ action_log_probs = [s \in 0..(num_steps - 1) |-> [e \in 0..(num_envs - 1) |-> 0]]
    /\ rewards = [s \in 0..(num_steps - 1) |-> [e \in 0..(num_envs - 1) |-> 0]]
    /\ value_predictions = [s \in 0..num_steps |-> [e \in 0..(num_envs - 1) |-> 0]]
    /\ returns = [s \in 0..num_steps |-> [e \in 0..(num_envs - 1) |-> 0]]
    /\ masks = [s \in 0..num_steps |-> [e \in 0..(num_envs - 1) |-> 1]]
    /\ recurrent_hidden_states = [s \in 0..num_steps |-> [e \in 0..(num_envs - 1) |-> 0]]

NoCaller ==
    /\ gen = NoGen
    /\ batch = NoBatch
    /\ op = [name |-> "init"]
    /\ loop = NoLoop
    /\ gru = NoGru

----------------------------------------------------------------------------
(* ExperienceStorage.insert *)

\* The arguments of one insert: one value per environment and field.  Even
\* environments get sample a, odd ones sample b.
StepInputs(samples) ==
    { [f \in {"observations", "actions", "action_log_probs", "rewards",
              "value_predictions", "masks", "recurrent_hidden_states"} |->
         [e \in Envs |-> IF e % 2 = 0 THEN a[f] ELSE b[f]]] : a \in samples, b \in samples }

\* The fields in the order in which insert writes them, and the size of the
\* slot dimension of each.
InsertFields == <<"observations", "actions", "action_log_probs", "rewards",
                  "value_predictions", "masks", "recurrent_hidden_states">>
SlotCount(field) ==
    IF field \in {"observations", "masks", "recurrent_hidden_states"}
    THEN _num_steps + 1 ELSE _num_steps

\* The slot of the three fields that are one slot ahead, taken as the cursor
\* itself.
AheadSlotSame(step) == step

\* self._step + 1, the slot of observations, masks and recurrent_hidden_states.
AheadSlot(step) == step + 1

SlotOf(field) ==
    IF field \in {"observations", "masks", "recurrent_hidden_states"}
    THEN AheadSlot(_step) ELSE _step

\* An argument is a [rows, ...] tensor, a function of the row 0..rows-1; a
\* 0-dim tensor counts as one row.  dst.copy_(src) on a [num_envs, ...] slot
\* takes src as it is when it has num_envs rows, repeats a single row for
\* every environment (broadcasting) and raises RuntimeError otherwise.
Rows(src) == Cardinality(DOMAIN src)
Broadcastable(src) == Rows(src) \in {1, _num_envs}
CopyRow(src) == [e \in Envs |-> IF Rows(src) = _num_envs THEN src[e] ELSE src[0]]

\* The first of the seven writes that raises (IndexError for the slot,
\* RuntimeError for the shape), 8 if none does.
FirstFailure(in) ==
    LET Raises(i) == \/ ~PyInRange(SlotOf(InsertFields[i]), SlotCount(InsertFields[i]))
                     \/ ~Broadcastable(in[InsertFields[i]])
        failing == { i \in 1..7 : Raises(i) }
    IN  IF failing = {} THEN 8 ELSE CHOOSE i \in failing : \A j \in failing : i <= j

\* The cursor after an insert, without the wrap.
AdvanceStepNoWrap == _step + 1

\* (self._step + 1) % self._num_steps
AdvanceStep == (_step + 1) % _num_steps

\* The writes before the first one that raises are done; the cursor moves
\* only when none raises.
insert(in) ==
    LET first == FirstFailure(in)
        Put(tensor, i) ==
            IF i < first
            THEN [tensor EXCEPT ![SlotOf(InsertFields[i])] = CopyRow(in[InsertFields[i]])]
            ELSE tensor
    IN  /\ observations' = Put(observations, 1)
        /\ actions' = Put(actions, 2)
        /\ action_log_probs' = Put(action_log_probs, 3)
        /\ rewards' = Put(rewards, 4)
        /\ value_predictions' = Put(value_predictions, 5)
        /\ masks' = Put(masks, 6)
        /\ recurrent_hidden_states' = Put(recurrent_hidden_states, 7)
        /\ _step' = IF first > 7 THEN AdvanceStep ELSE _step
        /\ op' = [name |-> "insert", in |-> in, at |-> _step, raised |-> first <= 7]
        /\ UNCHANGED <<_num_steps, _num_envs, returns, gen, batch, gru>>

\* self.observations[0].copy_(observations)
insert_initial_observations(obs) ==
    /\ observations' = IF Broadcastable(obs)
                       THEN [observations EXCEPT ![0] = CopyRow(obs)]
                       ELSE observations
    /\ op' = [name |-> "insert_initial_observations", raised |-> ~Broadcastable(obs)]
    /\ UNCHANGED <<_num_steps, _num_envs, _step, actions, action_log_probs, rewards,
                   value_predictions, returns, masks, recurrent_hidden_states,
                   gen, batch, gru>>

compute_returns(next_value, discount, gae_lambda) ==
    LET out == ComputeReturns(rewards, value_predictions, returns, masks,
                              next_value, discount, gae_lambda)
    IN  /\ value_predictions' = out.value_predictions
        /\ returns' = out.returns
        /\ op' = [name |-> "compute_returns", next_value |-> next_value,
                  discount |-> discount, gae_lambda |-> gae_lambda]
        /\ UNCHANGED <<_num_steps, _num_envs, _step, observations, actions,
                       action_log_probs, rewards, masks, recurrent_hidden_states,
                       gen, batch, gru>>

----------------------------------------------------------------------------
(* ExperienceStorage.after_update, get_actor_input, get_critic_input *)

\* tensor[0].copy_(tensor[-2]): the carry-over taken from the wrong slot.
CarryOverPenultimate(tensor) == [tensor EXCEPT ![0] = tensor[PyIndex(-2, _num_steps + 1)]]

\* tensor[0].copy_(tensor[-1])
CarryOver(tensor) == [tensor EXCEPT ![0] = tensor[PyIndex(-1, _num_steps + 1)]]

after_update ==
    /\ observations' = CarryOver(observations)
    /\ recurrent_hidden_states' = CarryOver(recurrent_hidden_states)
    /\ masks' = CarryOver(masks)
    /\ op' = [name |-> "after_update", repeated |-> (op.name = "after_update")]
    /\ UNCHANGED <<_num_steps, _num_envs, _step, actions, action_log_probs, rewards,
                   value_predictions, returns, gen, batch, gru>>

\* get_actor_input with the previous step held at 0 in place of the
\* negative index.
GetActorInputClamped(step) ==
    IF PyInRange(step, _num_steps + 1)
    THEN [raised |-> FALSE,
          states |-> observations[PyIndex(step, _num_steps + 1)],
          rnn_hxs |-> recurrent_hidden_states[PyIndex(step, _num_steps + 1)],
          masks |-> masks[PyIndex(step, _num_steps + 1)],
          prev_actions |-> actions[IF step >= 1 THEN step - 1 ELSE 0],
          prev_rewards |-> rewards[IF step >= 1 THEN step - 1 ELSE 0]]
    ELSE [raised |-> TRUE]

\* The tuple get_actor_input(step) returns, a function of the buffer that
\* writes nothing; raised where an index is out of range (IndexError).
GetActorInput(step) ==
    IF PyInRange(step, _num_steps + 1) /\ PyInRange(step - 1, _num_steps)
    THEN [raised |-> FALSE,
          states |-> observations[PyIndex(step, _num_steps + 1)],
          rnn_hxs |-> recurrent_hidden_states[PyIndex(step, _num_steps + 1)],
          masks |-> masks[PyIndex(step, _num_steps + 1)],
          prev_actions |-> actions[PyIndex(step - 1, _num_steps)],
          prev_rewards |-> rewards[PyIndex(step - 1, _num_steps)]]
    ELSE [raised |-> TRUE]

GetCriticInput == GetActorInput(-1)

----------------------------------------------------------------------------
(* ExperienceStorage._compute_advantages, batches and ExperienceBatch *)

\* (advantage - mean) / (std + eps) is kept as the pair of integers that
\* determines it: with n = num_steps * num_envs values x, centered = n*x - sum(x)
\* and spread = n*sum(x^2) - sum(x)^2, the tensor entry is
\* (centered / n) / (sqrt(spread / (n * (n - 1))) + eps).
ComputeAdvantages ==
    LET adv(s, e) == returns[s][e] - value_predictions[s][e]
        RowSum(s) == SumRange(LAMBDA e : adv(s, e), 0, _num_envs - 1)
        RowSumSq(s) == SumRange(LAMBDA e : adv(s, e) * adv(s, e), 0, _num_envs - 1)
        n == _num_steps * _num_envs
        total == SumRange(RowSum, 0, _num_steps - 1)
        totalSq == SumRange(RowSumSq, 0, _num_steps - 1)
    IN  [s \in Steps |-> [e \in Envs |->
            [centered |-> n * adv(s, e) - total, spread |-> n * totalSq - total * total]]]

\* returns after an in-place subtraction, returns[:-1] -= value_predictions[:-1].
ReturnsAfterAdvantagesInPlace ==
    [s \in Slots |->
        IF s \in Steps
        THEN [e \in Envs |-> returns[s][e] - value_predictions[s][e]]
        ELSE returns[s]]

\* returns after _compute_advantages: returns[:-1] - value_predictions[:-1] and
\* the normalisation make new tensors, returns keeps its values.
ReturnsAfterAdvantages == returns

\* torch.randperm(num_envs): position -> environment, every permutation.
Randperm == { p \in [Envs -> Envs] : \A i, j \in Envs : p[i] = p[j] => i = j }

\* random_env_indices[0:num_envs_per_batch] for every group.
GroupIndicesFromZero(perm, start, end) == [j \in 0..(end - start - 1) |-> perm[j]]

\* random_env_indices[start:end]
GroupIndices(perm, start, end) == [j \in 0..(end - start - 1) |-> perm[start + j]]

\* tensor[slots, indices]: advanced indexing, a new tensor [slot][position].
TakeEnvs(tensor, slots, indices) ==
    [s \in slots |-> [j \in DOMAIN indices |-> tensor[s][indices[j]]]]

\* The series without the shift: row s holds the value of step s.
PrevSeriesUnshifted(tensor, indices) ==
    [s \in Steps |-> [j \in DOMAIN indices |-> tensor[s][indices[j]]]]

\* prev = zeros(num_steps, n, 1); prev[1:, :] = tensor[:-1, indices]
PrevSeries(tensor, indices) ==
    [s \in Steps |-> [j \in DOMAIN indices |->
        IF s >= 1 THEN tensor[s - 1][indices[j]] ELSE 0]]

\* torch.zeros makes float32 tensors: a long written into one is exact up to
\* 2^24 and loses its last bit above; .type(torch.long) of a whole number
\* gives that number back.
F32Exact == 16777216
LongToFloat(a) == IF a <= F32Exact /\ a >= -F32Exact THEN a ELSE 2 * (a \div 2)
FloatToLong(x) == x

\* prev_actions = zeros; prev_actions[1:, :] = actions[:-1, indices];
\* prev_actions.type(torch.long)
PrevActions(indices) ==
    LET prev == PrevSeries([s \in Steps |-> [e \in Envs |-> LongToFloat(actions[s][e])]],
                           indices)
    IN  [s \in Steps |-> [j \in DOMAIN indices |-> FloatToLong(prev[s][j])]]

\* tensor.view with the environment as the slow index.
FlattenEnvMajor(tensor, num_steps, num_envs) ==
    [row \in 0..(num_steps * num_envs - 1) |-> tensor[row % num_steps][row \div num_steps]]

\* ExperienceBatch._flatten: tensor.view(num_steps * num_envs, ...) of a
\* contiguous [num_steps, num_envs, ...] tensor.
Flatten(tensor, num_steps, num_envs) ==
    [row \in 0..(num_steps * num_envs - 1) |-> tensor[row \div num_envs][row % num_envs]]

\* ExperienceBatch.__init__ on the arguments batches passes for one group.
ExperienceBatch(indices, advantages) ==
    LET num_steps == _num_steps
        num_envs == Cardinality(DOMAIN indices)
    IN  [observations |-> Flatten(TakeEnvs(observations, Steps, indices), num_steps, num_envs),
         actions |-> Flatten(TakeEnvs(actions, Steps, indices), num_steps, num_envs),
         prev_actions |-> Flatten(PrevActions(indices), num_steps, num_envs),
         prev_rewards |-> Flatten(PrevSeries(rewards, indices), num_steps, num_envs),
         action_log_probs |->
             Flatten(TakeEnvs(action_log_probs, Steps, indices), num_steps, num_envs),
         returns |-> Flatten(TakeEnvs(returns, Steps, indices), num_steps, num_envs),
         value_predictions |->
             Flatten(TakeEnvs(value_predictions, Steps, indices), num_steps, num_envs),
         advantage_targets |->
             Flatten(TakeEnvs(advantages, Steps, indices), num_steps, num_envs),
         masks |-> Flatten(TakeEnvs(masks, Steps, indices), num_steps, num_envs),
         recurrent_hidden_states |->
             [j \in DOMAIN indices |-> recurrent_hidden_states[0][indices[j]]],
         indices |-> indices]

\* tensor[:, start:end], basic slicing, returns a view: memory of the buffer.
SliceSharesStorage == TRUE

\* tensor[:, indices] with the index tensor random_env_indices[start:end] is
\* advanced indexing: the result is a new tensor with memory of its own, and
\* the .view of ExperienceBatch is a view of that new tensor.
IndexSharesStorage == FALSE

\* What the tensors of batch b hold now.  prev_actions, prev_rewards and
\* advantage_targets are made of tensors batches() allocates; the other
\* fields would follow the buffer if they shared its memory.
Held(b) ==
    IF IndexSharesStorage
    THEN [ExperienceBatch(b.indices, ComputeAdvantages) EXCEPT
              !.prev_actions = b.prev_actions,
              !.prev_rewards = b.prev_rewards,
              !.advantage_targets = b.advantage_targets]
    ELSE b

\* storage.batches(minibatches): a generator function, so the call runs none
\* of its body and returns the generator object.
batches(minibatches) ==
    /\ gen' = [NoGen EXCEPT !.state = "created", !.minibatches = minibatches]
    /\ op' = [name |-> "batches", minibatches |-> minibatches]
    /\ UNCHANGED <<storage, batch, gru>>

\* First next(): the body runs from the assert to the first yield.
NextFirst ==
    /\ gen.state = "created"
    /\ IF _num_envs % gen.minibatches # 0
       THEN /\ gen' = [gen EXCEPT !.state = "raised"]
            /\ op' = [name |-> "next", outcome |-> "AssertionError"]
            /\ UNCHANGED <<batch, returns>>
       ELSE \E perm \in Randperm :
              LET num_envs_per_batch == _num_envs \div gen.minibatches
                  advantages == ComputeAdvantages
                  indices == GroupIndices(perm, 0, num_envs_per_batch)
              IN  /\ gen' = [gen EXCEPT !.state = "suspended",
                                        !.random_env_indices = perm,
                                        !.advantages = advantages,
                                        !.start = 0,
                                        !.yielded = <<indices>>]
                  /\ batch' = ExperienceBatch(indices, advantages)
                  /\ returns' = ReturnsAfterAdvantages
                  /\ op' = [name |-> "next", outcome |-> "yield"]
    /\ UNCHANGED <<_num_steps, _num_envs, _step, observations, actions, action_log_probs,
                   rewards, value_predictions, masks, recurrent_hidden_states, gru>>

\* A later next(): the loop goes on to the next group or ends (StopIteration).
NextResume ==
    /\ gen.state = "suspended"
    /\ LET num_envs_per_batch == _num_envs \div gen.minibatches
           start == gen.start + num_envs_per_batch
           indices == GroupIndices(gen.random_env_indices, start, start + num_envs_per_batch)
       IN  IF start < _num_envs
           THEN /\ gen' = [gen EXCEPT !.start = start, !.yielded = Append(@, indices)]
                /\ batch' = ExperienceBatch(indices, gen.advantages)
                /\ op' = [name |-> "next", outcome |-> "yield"]
           ELSE /\ gen' = [gen EXCEPT !.state = "exhausted"]
                /\ op' = [name |-> "next", outcome |-> "StopIteration"]
                /\ UNCHANGED batch
    /\ UNCHANGED <<storage, gru>>


\* ExperienceBatch.action_eval_input: the caller reads the batch for its one
\* gradient step and drops it.
action_eval_input ==
    /\ batch # NoBatch
    /\ op' = [name |-> "action_eval_input",
              result |-> <<Held(batch).observations, Held(batch).recurrent_hidden_states,
                           Held(batch).masks, Held(batch).prev_actions,
                           Held(batch).prev_rewards, Held(batch).actions>>]
    /\ batch' = NoBatch
    /\ UNCHANGED <<storage, gen, gru>>

----------------------------------------------------------------------------
(* RecurrentPolicy._forward_gru *)

\* The recurrent cell is nn.GRU, a function of the input and the hidden state
\* of one environment.  It is kept uninterpreted: a hidden state is the
\* sequence of everything that went into it, so two hidden states are equal
\* here only if they are equal for every cell.  The zero vector is <<>>.
ZeroHidden == <<>>
Cell(x, h) == Append(h, x)

\* rnn_hxs * masks for one environment, the mask being 0.0 or 1.0.
Masked(h, mask) == IF mask = 0 THEN ZeroHidden ELSE h

\* self._gru(x[start:end], h0): the cell applied step by step to every
\* environment; the outputs of the steps, the hidden state fed into each step
\* and the final hidden state.
RECURSIVE GruRun(_, _, _, _)
GruRun(x, start, end, h0) ==
    IF start >= end THEN [outputs |-> <<>>, fed |-> <<>>, hxs |-> h0]
    ELSE LET out == [e \in DOMAIN h0 |-> Cell(x[start][e], h0[e])]
             rest == GruRun(x, start + 1, end, out)
         IN  [outputs |-> <<out>> \o rest.outputs, fed |-> <<h0>> \o rest.fed,
              hxs |-> rest.hxs]

\* x.view(steps, envs, -1) and its inverse .view(steps * envs, -1)
Unflatten(rows, steps, envs) ==
    [t \in 0..(steps - 1) |-> [e \in 0..(envs - 1) |-> rows[t * envs + e]]]
Reflatten(seq, steps, envs) ==
    [row \in 0..(steps * envs - 1) |-> seq[(row \div envs) + 1][row % envs]]

\* The fast path, x.size(0) == rnn_hxs.size(0): one step of the cell on
\* rnn_hxs * masks.
SingleStep(x, rnn_hxs, msk) ==
    LET h0 == [e \in DOMAIN rnn_hxs |-> Masked(rnn_hxs[e], msk[e])]
        out == [e \in DOMAIN rnn_hxs |-> Cell(x[e], h0[e])]
    IN  [x |-> out, hxs |-> out, has_zeros |-> <<>>, fed |-> <<h0>>, blocks |-> <<>>]

\* The elements of a set of integers in increasing order (nonzero() lists the
\* indices in increasing order).
RECURSIVE Ascending(_)
Ascending(S) ==
    IF S = {} THEN <<>>
    ELSE LET least == CHOOSE a \in S : \A b \in S : a <= b
         IN  <<least>> \o Ascending(S \ {least})

\* The boundary list without the +1 that corrects the masks[1:] slice.
HasZerosNoOffset(msk, steps_per_update) ==
    LET found == Ascending({ t \in 0..(steps_per_update - 2) :
                               \E e \in DOMAIN msk[t + 1] : msk[t + 1][e] = 0 })
    IN  <<0>> \o found \o <<steps_per_update>>

\* The boundary list of a scan of masks[0:] in place of masks[1:]: step 0 is
\* found too when it has a zero.
HasZerosFromZero(msk, steps_per_update) ==
    LET found == Ascending({ t \in 0..(steps_per_update - 1) :
                               \E e \in DOMAIN msk[t] : msk[t][e] = 0 })
    IN  <<0>> \o found \o <<steps_per_update>>

\* The boundary list: the steps t >= 1 at which some environment has mask 0,
\* between 0 and steps_per_update.  A single index comes out of squeeze() as a
\* scalar and is put into a list by hand.
HasZeros(msk, steps_per_update) ==
    LET found == Ascending({ t \in 0..(steps_per_update - 2) :
                               \E e \in DOMAIN msk[t + 1] : msk[t + 1][e] = 0 })
        shifted == IF Len(found) = 1
                   THEN <<found[1] + 1>>
                   ELSE [i \in 1..Len(found) |-> found[i] + 1]
    IN  <<0>> \o shifted \o <<steps_per_update>>

\* The loop over the blocks from block i on, hxs being carried; blocks lists
\* <<start_idx, end_idx>> of every iteration.
RECURSIVE Blocks(_, _, _, _, _)
Blocks(x, msk, has_zeros, i, hxs) ==
    IF i > Len(has_zeros) - 1
    THEN [outputs |-> <<>>, fed |-> <<>>, hxs |-> hxs, blocks |-> <<>>]
    ELSE LET start_idx == has_zeros[i]
             end_idx == has_zeros[i + 1]
             run == GruRun(x, start_idx, end_idx,
                           [e \in DOMAIN hxs |-> Masked(hxs[e], msk[start_idx][e])])
             rest == Blocks(x, msk, has_zeros, i + 1, run.hxs)
         IN  [outputs |-> run.outputs \o rest.outputs, fed |-> run.fed \o rest.fed,
              hxs |-> rest.hxs, blocks |-> <<<<start_idx, end_idx>>>> \o rest.blocks]

\* The general path.
Sequence(x, rnn_hxs, msk) ==
    LET num_envs_per_batch == Cardinality(DOMAIN rnn_hxs)
        steps_per_update == Cardinality(DOMAIN x) \div num_envs_per_batch
        xs == Unflatten(x, steps_per_update, num_envs_per_batch)
        ms == Unflatten(msk, steps_per_update, num_envs_per_batch)
        has_zeros == HasZeros(ms, steps_per_update)
        run == Blocks(xs, ms, has_zeros, 1, rnn_hxs)
    IN  [x |-> Reflatten(run.outputs, steps_per_update, num_envs_per_batch),
         hxs |-> run.hxs, has_zeros |-> has_zeros, fed |-> run.fed,
         blocks |-> run.blocks]

\* One call _forward_gru(x, rnn_hxs, masks), by the path it takes.
ForwardGruSingleStep ==
    /\ gru.pc = "called"
    /\ Cardinality(DOMAIN gru.x) = Cardinality(DOMAIN gru.rnn_hxs)
    /\ gru' = [gru EXCEPT !.pc = "returned",
                          !.result = SingleStep(gru.x, gru.rnn_hxs, gru.masks)]
    /\ UNCHANGED <<storage, gen, batch, op, loop>>

ForwardGruSequence ==
    /\ gru.pc = "called"
    /\ Cardinality(DOMAIN gru.x) # Cardinality(DOMAIN gru.rnn_hxs)
    /\ gru' = [gru EXCEPT !.pc = "returned",
                          !.result = Sequence(gru.x, gru.rnn_hxs, gru.masks)]
    /\ UNCHANGED <<storage, gen, batch, op, loop>>

\* Calls with steps * envs rows: the features of the rows are all different,
\* each mask is 0 or 1 and each hidden state is zero or not.
MaxGruSteps == 3
MaxGruEnvs == 2

GruCalls(steps, envs) ==
    { [pc |-> "called",
       x |-> [row \in 0..(steps * envs - 1) |-> row + 1],
       rnn_hxs |-> h, masks |-> m, result |-> <<>>] :
         h \in [0..(envs - 1) -> {ZeroHidden, <<0>>}],
         m \in [0..(steps * envs - 1) -> {0, 1}] }

InitGru ==
    /\ StorageInit(1, 1)
    /\ gen = NoGen
    /\ batch = NoBatch
    /\ op = [name |-> "init"]
    /\ loop = NoLoop
    /\ \E steps \in 1..MaxGruSteps, envs \in 1..MaxGruEnvs : gru \in GruCalls(steps, envs)

NextGru == ForwardGruSingleStep \/ ForwardGruSequence

SpecGru == InitGru /\ [][NextGru]_vars

----------------------------------------------------------------------------
(* Rollouts for the return computation: up to one cycle of inserts whose    *)
(* rewards, value predictions and masks vary, then compute_returns.         *)

ReturnSteps == 3
ReturnEnvs == 2

ReturnSamples ==
    { [observations |-> 0, actions |-> 0, action_log_probs |-> 0,
       rewards |-> t[1], value_predictions |-> t[2], masks |-> t[3],
       recurrent_hidden_states |-> 0] : t \in {<<1, 0, 1>>, <<1, 2, 0>>, <<2, 1, 1>>} }

Discounts == {1, 2}
Lambdas == {0, 1}
BootstrapValues == { [e \in Envs |-> IF e % 2 = 0 THEN a ELSE b] : a \in {0, 3}, b \in {0, 3} }

InitReturns == StorageInit(ReturnSteps, ReturnEnvs) /\ NoCaller

InsertReturns ==
    /\ ~loop.computed
    /\ loop.filled < _num_steps
    /\ \E in \in StepInputs(ReturnSamples) :
          /\ insert(in)
          /\ loop' = [loop EXCEPT !.inserts = @ + 1, !.filled = @ + 1, !.last = in]

ComputeReturnsCall ==
    /\ ~loop.computed
    /\ \E next_value \in BootstrapValues, discount \in Discounts, gae_lambda \in Lambdas :
          compute_returns(next_value, discount, gae_lambda)
    /\ loop' = [loop EXCEPT !.computed = TRUE]

NextReturns == InsertReturns \/ ComputeReturnsCall

SpecReturns == InitReturns /\ [][NextReturns]_vars

----------------------------------------------------------------------------
(* The training loop: the calls of the rollout cycle (num_steps inserts,    *)
(* compute_returns, batches and its iteration, after_update) and a bounded  *)
(* number of calls out of that order.                                       *)

MaxNumSteps == 2
MaxNumEnvs == 2
MaxMinibatches == 3
ExtraInserts == 1
MaxEpochs == 2
MaxMisuse == 1

LifeSamples ==
    { [observations |-> 1, actions |-> 1, action_log_probs |-> 1, rewards |-> 1,
       value_predictions |-> 2, masks |-> 1, recurrent_hidden_states |-> 1],
      [observations |-> 2, actions |-> 2, action_log_probs |-> 2, rewards |-> 3,
       value_predictions |-> 1, masks |-> 0, recurrent_hidden_states |-> 2] }

\* The inserts of the training loop: neighbouring environments get different
\* samples, so that every field tells the environments apart.
LifeInputs ==
    { in \in StepInputs(LifeSamples) :
        \A e \in Envs : e + 1 \in Envs => in.observations[e] # in.observations[e + 1] }

Init ==
    /\ \E num_steps \in 1..MaxNumSteps, num_envs \in 1..MaxNumEnvs :
          StorageInit(num_steps, num_envs)
    /\ NoCaller

GenLive == gen.state \in {"created", "suspended"}

\* The places of the cycle at which each call belongs.
InitialObservationsInOrder == op.name = "init"
InsertInOrder == loop.filled < _num_steps /\ ~loop.computed
ComputeInOrder == loop.filled = _num_steps /\ ~loop.computed
BatchesInOrder == loop.computed /\ ~GenLive /\ batch = NoBatch
NextInOrder == loop.computed /\ batch = NoBatch
AfterUpdateInOrder == loop.computed /\ loop.epochs >= 1 /\ ~GenLive /\ batch = NoBatch

\* A call out of order is allowed MaxMisuse times in a run.
Allowed(inOrder) == inOrder \/ loop.misuse < MaxMisuse
Counted(inOrder) == IF inOrder THEN loop.misuse ELSE loop.misuse + 1

InsertCall ==
    /\ loop.inserts < _num_steps + ExtraInserts
    /\ Allowed(InsertInOrder)
    /\ \E in \in LifeInputs :
          /\ insert(in)
          /\ loop' = [loop EXCEPT !.inserts = @ + 1, !.filled = @ + 1, !.last = in,
                                  !.misuse = Counted(InsertInOrder)]

\* The observations of the reset of the environments, before the first step.
InitialObservations == [e \in Envs |-> 3]

InsertInitialObservationsCall ==
    /\ Allowed(InitialObservationsInOrder)
    /\ insert_initial_observations(InitialObservations)
    /\ loop' = [loop EXCEPT !.misuse = Counted(InitialObservationsInOrder)]

ComputeReturnsLife ==
    /\ Allowed(ComputeInOrder)
    /\ compute_returns([e \in Envs |-> e + 3], 1, 1)
    /\ loop' = [loop EXCEPT !.computed = TRUE, !.misuse = Counted(ComputeInOrder)]

AfterUpdateCall ==
    /\ Allowed(AfterUpdateInOrder)
    /\ after_update
    /\ loop' = [loop EXCEPT !.filled = 0, !.computed = FALSE, !.epochs = 0,
                            !.carried = loop.last,
                            !.misuse = Counted(AfterUpdateInOrder)]

BatchesCall ==
    /\ loop.epochs < MaxEpochs
    /\ Allowed(BatchesInOrder)
    /\ \E minibatches \in 1..MaxMinibatches : batches(minibatches)
    /\ loop' = [loop EXCEPT !.misuse = Counted(BatchesInOrder)]

NextFirstCall ==
    /\ Allowed(NextInOrder)
    /\ NextFirst
    /\ loop' = [loop EXCEPT !.misuse = Counted(NextInOrder)]

NextResumeCall ==
    /\ Allowed(NextInOrder)
    /\ NextResume
    /\ loop' = [loop EXCEPT !.misuse = Counted(NextInOrder),
                            !.epochs = IF gen'.state = "exhausted" THEN @ + 1 ELSE @]

ActionEvalInputCall ==
    /\ action_eval_input
    /\ UNCHANGED loop

Next ==
    \/ InsertInitialObservationsCall
    \/ InsertCall
    \/ ComputeReturnsLife
    \/ AfterUpdateCall
    \/ BatchesCall
    \/ NextFirstCall
    \/ NextResumeCall
    \/ ActionEvalInputCall

Spec == Init /\ [][Next]_vars

----------------------------------------------------------------------------
(* Inserts whose arguments have any number of rows: in each call at most    *)
(* one argument has one row only, or one row more than the buffer declared. *)

ShapeSteps == 2
ShapeEnvs == 2
MaxShapeInserts == 2

\* The argument `field` of `in` replaced by a tensor of `rows` rows.
Reshaped(in, field, rows) ==
    [in EXCEPT ![field] = [r \in 0..(rows - 1) |-> 7 + r]]

ShapedInputs ==
    LifeInputs \cup
    { Reshaped(in, InsertFields[i], rows) :
        in \in LifeInputs, i \in 1..7, rows \in {1, _num_envs + 1} }

InitShapes == StorageInit(ShapeSteps, ShapeEnvs) /\ NoCaller

InsertShaped ==
    /\ loop.inserts < MaxShapeInserts
    /\ \E in \in ShapedInputs :
          /\ insert(in)
          /\ loop' = [loop EXCEPT !.inserts = @ + 1,
                                  !.filled = IF op'.raised THEN @ ELSE @ + 1,
                                  !.last = IF op'.raised THEN @ ELSE in]

NextShapes == InsertShaped

SpecShapes == InitShapes /\ [][NextShapes]_vars

----------------------------------------------------------------------------
(* Properties of compute_returns *)

ReturnsComputed == op.name = "compute_returns"

\* A second buffer for the pair (s, e): it keeps rewards[s, e],
\* value_predictions[s, e] and the zero mask masks[s+1, e] of this buffer and
\* holds r, v, m everywhere else; OtherContents lists <<r, v, m, bootstrap>>.
OtherRewards(s, e, r) ==
    [t \in Steps |-> [x \in Envs |-> IF t = s /\ x = e THEN rewards[t][x] ELSE r]]
OtherValues(s, e, v) ==
    [t \in Slots |-> [x \in Envs |-> IF t = s /\ x = e THEN value_predictions[t][x] ELSE v]]
OtherMasks(s, e, m) ==
    [t \in Slots |-> [x \in Envs |-> IF t = s + 1 /\ x = e THEN masks[t][x] ELSE m]]
OtherContents == {<<0, 0, 1, 0>>, <<5, 7, 1, 9>>}

\* C1: after compute_returns, where masks[s+1, e] = 0, returns[s, e] is the
\* same in every second buffer that agrees on rewards[s, e] and
\* value_predictions[s, e] only: nothing of the later steps, of the bootstrap
\* value or of the other entries reaches it.
C1_NoLeakAcrossReset ==
    ReturnsComputed =>
        \A s \in Steps, e \in Envs :
            masks[s + 1][e] = 0 =>
                \A c \in OtherContents :
                    ComputeReturns(OtherRewards(s, e, c[1]), OtherValues(s, e, c[2]),
                                   returns, OtherMasks(s, e, c[3]),
                                   [x \in Envs |-> c[4]],
                                   op.discount, op.gae_lambda).returns[s][e]
                      = returns[s][e]

\* A reset before the last step of a full rollout, with rewards and values
\* after it that are not zero and a gae carry that is switched on.
C1_Witness ==
    /\ ReturnsComputed
    /\ loop.inserts = _num_steps
    /\ op.gae_lambda = 1
    /\ \E s \in Steps, e \in Envs :
          /\ s + 1 \in Steps
          /\ masks[s + 1][e] = 0
          /\ rewards[s + 1][e] # 0
          /\ value_predictions[s + 1][e] # 0
          /\ masks[s + 2][e] = 1

AllMasksOne == \A s \in Steps, e \in Envs : masks[s + 1][e] = 1

\* C2: with every mask 1 and discount = gae_lambda = 1, returns[s, e] is the
\* sum of the rewards of steps s..T-1 plus the bootstrap value.
C2_MonteCarloReturn ==
    (ReturnsComputed /\ op.discount = 1 /\ op.gae_lambda = 1 /\ AllMasksOne) =>
        \A s \in Steps, e \in Envs :
            returns[s][e] =
                LET Reward(k) == rewards[k][e]
                IN  SumRange(Reward, s, _num_steps - 1) + op.next_value[e]

\* A full rollout without reset, stored value predictions that are not zero
\* and a bootstrap value that is not zero.
C2_Witness ==
    /\ ReturnsComputed /\ op.discount = 1 /\ op.gae_lambda = 1 /\ AllMasksOne
    /\ loop.inserts = _num_steps
    /\ \E e \in Envs : op.next_value[e] # 0 /\ value_predictions[0][e] # 0
    /\ \E s \in Steps, e \in Envs : rewards[s][e] # rewards[0][e]

\* The GAE chain of environment e from step s on when none of its masks is 0.
FullChain(s, e) ==
    LET Term(k) == Pow(op.discount * op.gae_lambda, k - s)
                   * (rewards[k][e] + op.discount * value_predictions[k + 1][e]
                      - value_predictions[k][e])
    IN  value_predictions[s][e] + SumRange(Term, s, _num_steps - 1)

\* The buffer with the columns of every environment but e replaced.
OwnColumn(field, slots, e, other) ==
    [t \in slots |-> [x \in Envs |-> IF x = e THEN field[t][x] ELSE other]]

\* C3: returns[s, e] is a function of environment e's own rewards, value
\* predictions, masks and bootstrap value; a zero mask of one environment at
\* slot s+1 cuts that environment's chain at s, and an environment whose
\* masks are all 1 keeps the whole chain through steps s+1..T-1.
C3_EnvironmentsIndependent ==
    ReturnsComputed =>
        \A s \in Steps, e \in Envs :
            /\ \A c \in OtherContents :
                  ComputeReturns(OwnColumn(rewards, Steps, e, c[1]),
                                 OwnColumn(value_predictions, Slots, e, c[2]),
                                 returns,
                                 OwnColumn(masks, Slots, e, c[3]),
                                 [x \in Envs |-> IF x = e THEN op.next_value[x] ELSE c[4]],
                                 op.discount, op.gae_lambda).returns[s][e]
                    = returns[s][e]
            /\ masks[s + 1][e] = 0 => returns[s][e] = rewards[s][e]
            /\ (\A t \in Steps : masks[t + 1][e] = 1) => returns[s][e] = FullChain(s, e)

\* The scenario: rewards all 1, bootstrap 0, environment 0 reset entering the
\* last step, environment 1 never reset; the returns of the step before
\* differ.
C3_Witness ==
    /\ ReturnsComputed
    /\ loop.inserts = _num_steps
    /\ \A s \in Steps, e \in Envs : rewards[s][e] = 1
    /\ \A e \in Envs : op.next_value[e] = 0
    /\ masks[_num_steps - 1][0] = 0
    /\ \A t \in Steps : masks[t + 1][1] = 1
    /\ returns[_num_steps - 2][0] = 1
    /\ returns[_num_steps - 2][1] > 1

----------------------------------------------------------------------------
(* Properties of batches and ExperienceBatch *)

\* The state right after next() yielded a batch: the indices of its group and
\* the number of environments of a group.
Yielded == op.name = "next" /\ op.outcome = "yield"
LastIndices == gen.yielded[Len(gen.yielded)]
EnvsPerBatch == _num_envs \div gen.minibatches
Positions == 0..(EnvsPerBatch - 1)

\* How often environment e was yielded by the generator so far.
TimesYielded(e) ==
    Cardinality({ ij \in (1..Len(gen.yielded)) \X Positions :
                    ij[2] \in DOMAIN gen.yielded[ij[1]] /\ gen.yielded[ij[1]][ij[2]] = e })

\* C4: an exhausted batches(k) has yielded exactly k batches of num_envs / k
\* environments each, and every environment is in exactly one of them; while
\* it runs, no environment was yielded twice.
C4_BatchesPartitionEnvs ==
    /\ gen.state = "exhausted" =>
          /\ Len(gen.yielded) = gen.minibatches
          /\ \A i \in 1..Len(gen.yielded) : DOMAIN gen.yielded[i] = Positions
          /\ \A e \in Envs : TimesYielded(e) = 1
    /\ gen.state = "suspended" =>
          /\ Len(gen.yielded) <= gen.minibatches
          /\ \A e \in Envs : TimesYielded(e) <= 1

\* An exhausted generator of several groups whose permutation is not the
\* identity.
C4_Witness ==
    /\ gen.state = "exhausted"
    /\ gen.minibatches > 1
    /\ gen.random_env_indices[0] # 0

\* C5: batches(k) with num_envs mod k # 0 has failed when the call returns,
\* before any iteration.
C5_FailsAtCall ==
    (op.name = "batches" /\ _num_envs % op.minibatches # 0) => gen.state = "raised"

BatchRows == 0..(_num_steps * EnvsPerBatch - 1)

\* C6: row step*n + j of every flattened field of a yielded batch is the
\* buffer's value at [step, idx[j]], row j of recurrent_hidden_states is the
\* slot-0 hidden state of environment idx[j], all with the same idx; the
\* advantage targets are those of this call's _compute_advantages(); for
\* k = 1 the batch holds every environment once.
C6_BatchRowsAreBufferEntries ==
    Yielded =>
        LET idx == LastIndices
            n == EnvsPerBatch
        IN  /\ DOMAIN idx = Positions
            /\ \A f \in {"observations", "actions", "action_log_probs", "returns",
                         "value_predictions", "advantage_targets", "masks"} :
                  DOMAIN batch[f] = BatchRows
            /\ DOMAIN batch.recurrent_hidden_states = Positions
            /\ \A step \in Steps, j \in Positions :
                  /\ batch.observations[step * n + j] = observations[step][idx[j]]
                  /\ batch.actions[step * n + j] = actions[step][idx[j]]
                  /\ batch.action_log_probs[step * n + j] = action_log_probs[step][idx[j]]
                  /\ batch.returns[step * n + j] = returns[step][idx[j]]
                  /\ batch.value_predictions[step * n + j] = value_predictions[step][idx[j]]
                  /\ batch.advantage_targets[step * n + j] = gen.advantages[step][idx[j]]
                  /\ batch.masks[step * n + j] = masks[step][idx[j]]
            /\ \A j \in Positions :
                  batch.recurrent_hidden_states[j] = recurrent_hidden_states[0][idx[j]]
            /\ Len(gen.yielded) = 1 => gen.advantages = ComputeAdvantages
            /\ gen.minibatches = 1 =>
                  /\ { idx[j] : j \in Positions } = Envs
                  /\ \A i, j \in Positions : idx[i] = idx[j] => i = j

\* A batch of several environments over several steps of a filled buffer whose
\* returns were computed, yielded in another order than the buffer's.
C6_Witness ==
    /\ Yielded
    /\ EnvsPerBatch > 1
    /\ _num_steps > 1
    /\ loop.filled = _num_steps
    /\ loop.computed
    /\ LastIndices[0] # 0
    /\ observations[0][0] # observations[1][0]
    /\ batch.observations[1] # batch.observations[EnvsPerBatch]

\* C7: in a yielded batch prev_actions and prev_rewards are zero at step 0 and
\* hold the same environment's actions[s-1] and rewards[s-1] at steps s >= 1.
C7_PrevSeriesShifted ==
    Yielded =>
        LET idx == LastIndices
            n == EnvsPerBatch
        IN  /\ DOMAIN batch.prev_actions = BatchRows
            /\ DOMAIN batch.prev_rewards = BatchRows
            /\ \A step \in Steps, j \in Positions :
                  IF step = 0
                  THEN /\ batch.prev_actions[step * n + j] = 0
                       /\ batch.prev_rewards[step * n + j] = 0
                  ELSE /\ batch.prev_actions[step * n + j] = actions[step - 1][idx[j]]
                       /\ batch.prev_rewards[step * n + j] = rewards[step - 1][idx[j]]

\* A batch over several steps of a filled buffer in which the action of a
\* step differs from the one before it.
C7_Witness ==
    /\ Yielded
    /\ _num_steps > 1
    /\ loop.filled = _num_steps
    /\ \E e \in Envs : actions[0][e] # 0 /\ actions[1][e] # actions[0][e]
    /\ \E r \in BatchRows : batch.prev_rewards[r] # 0

----------------------------------------------------------------------------
(* Properties of the accessors and of after_update *)

\* C8: get_critic_input returns what get_actor_input returns for the terminal
\* slot T: observations[T], recurrent_hidden_states[T], masks[T], actions[T-1]
\* and rewards[T-1].
C8_CriticInputIsActorInputAtT == GetCriticInput = GetActorInput(_num_steps)

\* C10: a call of after_update copies slot T of observations,
\* recurrent_hidden_states and masks into slot 0 and changes nothing else of
\* the buffer; a second call right after the first changes nothing.
C10_AfterUpdateFrame ==
    [][op'.name = "after_update" =>
          /\ observations' = [observations EXCEPT ![0] = observations[_num_steps]]
          /\ recurrent_hidden_states' =
                 [recurrent_hidden_states EXCEPT ![0] = recurrent_hidden_states[_num_steps]]
          /\ masks' = [masks EXCEPT ![0] = masks[_num_steps]]
          /\ UNCHANGED <<actions, action_log_probs, rewards, value_predictions, returns,
                         _step, _num_steps, _num_envs>>
          /\ op.name = "after_update" => UNCHANGED storage]_vars

\* after_update called twice in a row on a buffer whose terminal slot differed
\* from slot 0 and from the slot before it.
C10_Witness ==
    /\ op.name = "after_update"
    /\ op.repeated
    /\ _num_steps > 1
    /\ loop.inserts >= _num_steps
    /\ \E e \in Envs :
          /\ observations[0][e] # 0
          /\ observations[0][e] # observations[_num_steps - 1][e]
          /\ masks[0][e] = 0

----------------------------------------------------------------------------
(* Properties of _forward_gru *)

GruSteps == Cardinality(DOMAIN gru.x) \div Cardinality(DOMAIN gru.rnn_hxs)
GruEnvs == 0..(Cardinality(DOMAIN gru.rnn_hxs) - 1)
GruRows(t) == [e \in GruEnvs |-> gru.x[t * Cardinality(GruEnvs) + e]]
GruMasks(t) == [e \in GruEnvs |-> gru.masks[t * Cardinality(GruEnvs) + e]]

\* The hidden state after the fast path was applied to the timesteps 0..t-1
\* one after the other, each with the masks of its timestep.
RECURSIVE StepByStep(_)
StepByStep(t) ==
    IF t = 0 THEN gru.rnn_hxs
    ELSE SingleStep(GruRows(t - 1), StepByStep(t - 1), GruMasks(t - 1)).hxs

\* C9: the call returns what the fast path applied timestep by timestep
\* returns: the hidden state fed into the cell at timestep t is zero for an
\* environment with mask 0 at t and the carried hidden state for one with
\* mask 1, and the outputs and the final hidden state are the same.
C9_SegmentsEqualStepByStep ==
    gru.pc = "returned" =>
        /\ Len(gru.result.fed) = GruSteps
        /\ \A t \in 0..(GruSteps - 1), e \in GruEnvs :
              /\ gru.result.fed[t + 1][e] =
                    IF GruMasks(t)[e] = 0 THEN ZeroHidden ELSE StepByStep(t)[e]
              /\ gru.result.x[t * Cardinality(GruEnvs) + e] = StepByStep(t + 1)[e]
        /\ gru.result.hxs = StepByStep(GruSteps)

\* The general path with a reset of environment 0 in the middle of the
\* sequence while environment 1 carries a hidden state that is not zero, and a
\* later reset of environment 1 only.
C9_Witness ==
    /\ gru.pc = "returned"
    /\ GruSteps >= 3
    /\ Cardinality(GruEnvs) >= 2
    /\ gru.rnn_hxs[1] # ZeroHidden
    /\ GruMasks(0)[1] = 1
    /\ GruMasks(1)[0] = 0 /\ GruMasks(1)[1] = 1
    /\ GruMasks(2)[0] = 1 /\ GruMasks(2)[1] = 0
    /\ gru.result.fed[2][0] = ZeroHidden
    /\ gru.result.fed[2][1] # ZeroHidden
    /\ Len(gru.result.has_zeros) = 4

----------------------------------------------------------------------------
(* Properties of the rollout cycle *)

\* The run so far made every call at its place of the cycle.
FollowsCycle == loop.misuse = 0

\* C11: in a run that follows the cycle, from the first after_update on, slot
\* 0 of observations, recurrent_hidden_states and masks holds what the final
\* insert of the cycle before passed; and no insert and no compute_returns,
\* in any run, changes slot 0 of these three fields.
C11_SlotZeroHoldsCarryOver ==
    /\ []((FollowsCycle /\ loop.carried # <<>>) =>
            /\ observations[0] = loop.carried.observations
            /\ recurrent_hidden_states[0] = loop.carried.recurrent_hidden_states
            /\ masks[0] = loop.carried.masks)
    /\ [][op'.name \in {"insert", "compute_returns"} =>
            /\ observations'[0] = observations[0]
            /\ recurrent_hidden_states'[0] = recurrent_hidden_states[0]
            /\ masks'[0] = masks[0]]_vars

\* An insert of the second cycle of a run that follows the cycle and began
\* with initial observations, the carried slot differing from the slot just
\* written.
C11_Witness ==
    /\ FollowsCycle
    /\ loop.carried # <<>>
    /\ op.name = "insert"
    /\ loop.filled >= 1
    /\ _num_steps > 1
    /\ \E e \in Envs :
          /\ observations[0][e] = loop.carried.observations[e]
          /\ observations[0][e] \notin {0, 3}
          /\ observations[0][e] # observations[1][e]
          /\ masks[0][e] # masks[1][e]

\* C12: in every run, in or out of the cycle, the cursor is within
\* 0..num_steps-1 and is the number of inserts modulo num_steps; an insert
\* raised nothing, wrote actions, action_log_probs, rewards and
\* value_predictions at the slot the cursor had (within 0..T-1) and
\* observations, masks and recurrent_hidden_states one slot further (within
\* 1..T), and moved the cursor by one, modulo num_steps.
C12_CursorWithinBounds ==
    /\ _step \in Steps
    /\ _step = loop.inserts % _num_steps
    /\ op.name = "insert" =>
          /\ ~op.raised
          /\ op.at \in Steps
          /\ op.at + 1 \in Slots \ {0}
          /\ _step = (op.at + 1) % _num_steps
          /\ actions[op.at] = op.in.actions
          /\ action_log_probs[op.at] = op.in.action_log_probs
          /\ rewards[op.at] = op.in.rewards
          /\ value_predictions[op.at] = op.in.value_predictions
          /\ observations[op.at + 1] = op.in.observations
          /\ masks[op.at + 1] = op.in.masks
          /\ recurrent_hidden_states[op.at + 1] = op.in.recurrent_hidden_states

\* One insert more than num_steps in a cycle: it raised nothing and went to
\* slot 0 again, over the first insert of the cycle.
C12_Witness ==
    /\ op.name = "insert"
    /\ ~op.raised
    /\ _num_steps > 1
    /\ loop.filled = _num_steps + 1
    /\ op.at = 0
    /\ _step = 1
    /\ actions[0] # actions[1]
    /\ observations[1] # observations[2]

----------------------------------------------------------------------------
(* Properties of a batch in flight *)

InFlight == batch # NoBatch

\* The buffer's step-0 entries of the three carried fields, for the
\* environments of the batch in flight, as the batch lays them out.
StepZeroNow(tensor) == [j \in DOMAIN batch.indices |-> tensor[0][batch.indices[j]]]
StepZeroOf(rows) == [j \in DOMAIN batch.indices |-> rows[j]]

\* after_update (or insert) ran while a batch was in flight and left the
\* buffer different from what the batch was made of.
BufferMovedOn ==
    /\ InFlight
    /\ op.name \in {"after_update", "insert"}
    /\ \/ StepZeroNow(observations) # StepZeroOf(batch.observations)
       \/ StepZeroNow(masks) # StepZeroOf(batch.masks)
       \/ StepZeroNow(recurrent_hidden_states) # batch.recurrent_hidden_states
       \/ \E s \in Steps, j \in DOMAIN batch.indices :
             actions[s][batch.indices[j]]
               # batch.actions[s * Cardinality(DOMAIN batch.indices) + j]

----------------------------------------------------------------------------
(* Properties of insert on arguments of another shape *)

\* Some argument has not the num_envs rows the buffer declared for a slot.
Misshapen(in) == \E i \in 1..7 : Rows(in[InsertFields[i]]) # _num_envs

\* C14: an insert with an argument of another shape than the declared one
\* raises and leaves the buffer and the cursor as they were.
C14_MisshapenInsertFails ==
    [][(loop'.inserts = loop.inserts + 1 /\ Misshapen(op'.in)) =>
          (op'.raised /\ UNCHANGED storage)]_vars

----------------------------------------------------------------------------
(* Properties of the boundary list of _forward_gru *)

GeneralPath == gru.pc = "returned" /\ Cardinality(DOMAIN gru.x) # Cardinality(DOMAIN gru.rnn_hxs)

\* The timesteps 1..T'-1 at which some environment has mask 0.
ResetSteps == { t \in 1..(GruSteps - 1) : \E e \in GruEnvs : GruMasks(t)[e] = 0 }

\* C15: on the general path the boundary list begins with 0, ends with T',
\* has between them exactly the timesteps 1..T'-1 at which some environment
\* has mask 0, and is strictly increasing; the loop runs once per reset
\* timestep plus once, on blocks [start, end) that are non-empty, follow one
\* another and cover 0..T'-1.
C15_BoundaryListPartitionsSteps ==
    GeneralPath =>
        LET has_zeros == gru.result.has_zeros
            blocks == gru.result.blocks
            k == Cardinality(ResetSteps)
        IN  /\ GruSteps >= 2
            /\ Len(has_zeros) = k + 2
            /\ has_zeros[1] = 0
            /\ has_zeros[k + 2] = GruSteps
            /\ { has_zeros[i] : i \in 2..(k + 1) } = ResetSteps
            /\ \A i \in 1..(k + 1) : has_zeros[i] < has_zeros[i + 1]
            /\ Len(blocks) = k + 1
            /\ blocks[1][1] = 0
            /\ blocks[k + 1][2] = GruSteps
            /\ \A i \in 1..(k + 1) :
                  /\ blocks[i] = <<has_zeros[i], has_zeros[i + 1]>>
                  /\ blocks[i][1] < blocks[i][2]
                  /\ i <= k => blocks[i][2] = blocks[i + 1][1]
            /\ \A t \in 0..(GruSteps - 1) :
                  Cardinality({ i \in 1..(k + 1) : blocks[i][1] <= t /\ t < blocks[i][2] }) = 1

\* The three cases: no boundary, exactly one boundary (with a zero mask at
\* step 0 as well, which is no boundary), several boundaries.
C15_WitnessNone == GeneralPath /\ GruSteps >= 3 /\ ResetSteps = {}
                       /\ \E e \in GruEnvs : GruMasks(0)[e] = 0
C15_WitnessOne == GeneralPath /\ GruSteps >= 3 /\ ResetSteps = {2}
C15_Witness ==
    /\ GeneralPath
    /\ GruSteps >= 3
    /\ Cardinality(ResetSteps) >= 2
    /\ \E e \in GruEnvs : GruMasks(0)[e] = 0
    /\ \E e \in GruEnvs : GruMasks(1)[e] = 1

----------------------------------------------------------------------------
(* Properties of the last slot and of gae_lambda = 0 *)

\* C16 as stated: after compute_returns both value_predictions[T] and
\* returns[T] are the bootstrap value.
C16_LastSlotsHoldBootstrap ==
    ReturnsComputed =>
        /\ value_predictions[_num_steps] = op.next_value
        /\ returns[_num_steps] = op.next_value

\* C16, amended: after compute_returns value_predictions[T] is the bootstrap
\* value; returns[T] is never assigned and is the zero of the constructor in
\* every state.
C16_BootstrapInValuesOnly ==
    /\ returns[_num_steps] = [e \in Envs |-> 0]
    /\ ReturnsComputed => value_predictions[_num_steps] = op.next_value

\* compute_returns on a full rollout with a bootstrap value that is not zero
\* and a return of the last step that is not zero.
C16_Witness ==
    /\ ReturnsComputed
    /\ loop.inserts = _num_steps
    /\ \E e \in Envs :
          /\ op.next_value[e] # 0
          /\ value_predictions[_num_steps][e] # returns[_num_steps][e]
          /\ returns[_num_steps - 1][e] # 0

\* C17: with gae_lambda = 0, returns[s, e] is the one-step target
\* rewards[s, e] + discount * value_predictions[s+1, e] * masks[s+1, e] for
\* every step and environment, value_predictions[T] being the bootstrap
\* value; no later reward is in it.
C17_LambdaZeroIsOneStepTD ==
    (ReturnsComputed /\ op.gae_lambda = 0) =>
        \A s \in Steps, e \in Envs :
            returns[s][e] =
                rewards[s][e]
                + op.discount
                  * (IF s + 1 = _num_steps THEN op.next_value[e] ELSE value_predictions[s + 1][e])
                  * masks[s + 1][e]

\* gae_lambda = 0 and a discount other than 1 on a full rollout: a step whose
\* next value is cut by a reset, a step whose next value counts, rewards
\* after both, and a bootstrap value that is not zero.
C17_Witness ==
    /\ ReturnsComputed
    /\ op.gae_lambda = 0
    /\ op.discount = 2
    /\ loop.inserts = _num_steps
    /\ \E e \in Envs :
          /\ op.next_value[e] # 0
          /\ masks[_num_steps][e] = 1
          /\ \E s \in Steps :
                /\ s + 2 \in Steps
                /\ masks[s + 1][e] = 0
                /\ value_predictions[s + 1][e] # 0
                /\ rewards[s + 1][e] # 0
          /\ \E s \in Steps :
                /\ s + 1 \in Steps
                /\ masks[s + 1][e] = 1
                /\ value_predictions[s + 1][e] # 0
                /\ returns[s][e] # rewards[s][e]

----------------------------------------------------------------------------
(* Properties of get_actor_input during the rollout *)

\* The rollout of a cycle is under way: the next call of the cycle is an
\* insert, before which the actor is given get_actor_input(step = _step).
InRollout == FollowsCycle /\ InsertInOrder

\* C18: during the rollout of a run that follows the cycle,
\* get_actor_input(_step) raises nothing and returns the observation, hidden
\* state and mask of the most recent insert and its action and reward as the
\* previous ones; they come from slots _step and _step - 1 for _step >= 1 and,
\* for _step = 0 after a first cycle, from slot 0 and from actions[T-1] and
\* rewards[T-1]; before the first insert the previous action and reward are
\* zero.
C18_ActorInputIsLastInsert ==
    InRollout =>
        LET got == GetActorInput(_step)
        IN  /\ ~got.raised
            /\ loop.last = <<>> =>
                  /\ _step = 0
                  /\ got.prev_actions = [e \in Envs |-> 0]
                  /\ got.prev_rewards = [e \in Envs |-> 0]
            /\ loop.last # <<>> =>
                  /\ got.states = loop.last.observations
                  /\ got.rnn_hxs = loop.last.recurrent_hidden_states
                  /\ got.masks = loop.last.masks
                  /\ got.prev_actions = loop.last.actions
                  /\ got.prev_rewards = loop.last.rewards
            /\ got.states = observations[_step]
            /\ got.rnn_hxs = recurrent_hidden_states[_step]
            /\ got.masks = masks[_step]
            /\ got.prev_actions = actions[IF _step >= 1 THEN _step - 1 ELSE _num_steps - 1]
            /\ got.prev_rewards = rewards[IF _step >= 1 THEN _step - 1 ELSE _num_steps - 1]

\* The start of the second cycle of a buffer of several steps: the cursor is 0
\* again and the last action and reward of the first cycle differ from its
\* first ones.
C18_Witness ==
    /\ InRollout
    /\ loop.carried # <<>>
    /\ loop.filled = 0
    /\ _step = 0
    /\ _num_steps > 1
    /\ \E e \in Envs :
          /\ actions[_num_steps - 1][e] # actions[0][e]
          /\ rewards[_num_steps - 1][e] # rewards[0][e]
          /\ GetActorInput(_step).prev_actions[e] # 0

----------------------------------------------------------------------------
(* Properties of batches as a reader of the buffer *)

\* C19: the call of batches and every next() on its generator, yielding,
\* ending or failing, leave every tensor of the buffer and the cursor as they
\* were; in a run that follows the cycle every yielded batch, of the first
\* epoch and of a later one, is made of the buffer as it stands, with the
\* advantages that buffer gives.
C19_BatchesLeaveBufferUnchanged ==
    /\ [][op'.name \in {"batches", "next"} => UNCHANGED storage]_vars
    /\ []((Yielded /\ FollowsCycle) =>
            /\ gen.advantages = ComputeAdvantages
            /\ batch = ExperienceBatch(LastIndices, ComputeAdvantages))

\* The second batch of a second epoch over a full rollout whose returns were
\* computed and differ from the value predictions.
C19_Witness ==
    /\ Yielded
    /\ FollowsCycle
    /\ loop.epochs >= 1
    /\ loop.filled = _num_steps
    /\ Len(gen.yielded) >= 2
    /\ \E s \in Steps, e \in Envs :
          /\ value_predictions[s][e] # 0
          /\ returns[s][e] # value_predictions[s][e]
          /\ returns[s][e] # 0

====
